---- MODULE Spec2Model ----
(***************************************************************************)
(* Model of the layered configuration loader of creastat/infra             *)
(* (config/loader.go): Loader.Load and the phases it calls.                *)
(*                                                                         *)
(* Text is modelled as a sequence of one-character strings, so that key    *)
(* derivation (prefix + key), case folding, number parsing and the         *)
(* reference syntax of the interpolation are computed, not assumed.        *)
(***************************************************************************)
EXTENDS Integers, Sequences, FiniteSets, TLC

(***************************************************************************)
(* Characters and strings                                                  *)
(***************************************************************************)
Lower == <<"a","b","c","d","e","f","g","h","i","j","k","l","m",
           "n","o","p","q","r","s","t","u","v","w","x","y","z">>
Upper == <<"A","B","C","D","E","F","G","H","I","J","K","L","M",
           "N","O","P","Q","R","S","T","U","V","W","X","Y","Z">>
Digits == <<"0","1","2","3","4","5","6","7","8","9">>

IsUpper(c) == \E i \in 1..26 : Upper[i] = c
IsLower(c) == \E i \in 1..26 : Lower[i] = c
IsDigit(c) == \E i \in 1..10 : Digits[i] = c
DigitVal(c) == (CHOOSE i \in 1..10 : Digits[i] = c) - 1

\* strings.ToUpper / strings.ToLower, one character
ToUpperChar(c) == IF IsLower(c) THEN Upper[CHOOSE i \in 1..26 : Lower[i] = c] ELSE c
ToLowerChar(c) == IF IsUpper(c) THEN Lower[CHOOSE i \in 1..26 : Upper[i] = c] ELSE c
ToUpper(s) == [i \in 1..Len(s) |-> ToUpperChar(s[i])]
ToLower(s) == [i \in 1..Len(s) |-> ToLowerChar(s[i])]

\* strings.HasPrefix
HasPrefix(s, p) == Len(s) >= Len(p) /\ SubSeq(s, 1, Len(p)) = p

\* strings.Index: first position of sub in s, 0 when absent
Index(s, sub) ==
    LET hits == {i \in 1..(Len(s) - Len(sub) + 1) : SubSeq(s, i, i + Len(sub) - 1) = sub}
    IN  IF hits = {} THEN 0 ELSE CHOOSE i \in hits : \A j \in hits : i <= j

\* strings.Contains
Contains(s, sub) == Index(s, sub) # 0

\* os.Getenv: the value of the variable, empty when it is not set
Getenv(env, name) == IF name \in DOMAIN env THEN env[name] ELSE <<>>

\* ---------------------------------------------------------------------------
\* Interpolation of one string: Loader.expandEnvVar.  The pattern has two
\* alternatives: a dollar sign, an opening brace, one or more characters other
\* than the closing brace, and the closing brace; or a dollar sign followed by
\* a name (an upper-case letter or underscore, then upper-case letters, digits
\* and underscores).
\* ---------------------------------------------------------------------------
IsNameStart(c) == IsUpper(c) \/ c = "_"
IsNameChar(c) == IsUpper(c) \/ IsDigit(c) \/ c = "_"

\* first alternative at position i: "${", one or more characters other than
\* "}", then "}".  Result: position of the closing brace, 0 when no match.
BraceEnd(s, i) ==
    IF i + 1 > Len(s) \/ s[i] # "$" \/ s[i + 1] # "{" THEN 0
    ELSE LET closers == {j \in (i + 2)..Len(s) : s[j] = "}"}
         IN  IF closers = {} THEN 0
             ELSE LET j == CHOOSE c \in closers : \A d \in closers : c <= d
                  IN  IF j > i + 2 THEN j ELSE 0

\* second alternative at position i: "$", a name start, then the longest run
\* of name characters.  Result: position of the last character, 0 if none.
BareEnd(s, i) ==
    IF i + 1 > Len(s) \/ s[i] # "$" \/ ~IsNameStart(s[i + 1]) THEN 0
    ELSE CHOOSE j \in (i + 1)..Len(s) :
            /\ \A m \in (i + 2)..j : IsNameChar(s[m])
            /\ (j = Len(s) \/ ~IsNameChar(s[j + 1]))

\* the leftmost-first match starting at i (the first alternative is preferred)
MatchEnd(s, i) == IF BraceEnd(s, i) # 0 THEN BraceEnd(s, i) ELSE BareEnd(s, i)

\* the callback given to ReplaceAllStringFunc: what one match is replaced by
expandMatch(match, env) ==
    LET braced  == HasPrefix(match, <<"$", "{">>)
        content == IF braced THEN SubSeq(match, 3, Len(match) - 1) ELSE <<>>
        hasDef  == braced /\ Contains(content, <<":", "-">>)
        cut     == Index(content, <<":", "-">>)
        varName == IF braced
                     THEN (IF hasDef THEN SubSeq(content, 1, cut - 1) ELSE content)
                     ELSE Tail(match)
        defaultValue == IF hasDef THEN SubSeq(content, cut + 2, Len(content)) ELSE <<>>
        value   == Getenv(env, varName)
    IN  IF value # <<>> THEN value
        ELSE IF defaultValue # <<>> THEN defaultValue
        ELSE match

\* ExpandFrom, but a "$" that starts no reference is dropped, as os.Expand
\* drops it
RECURSIVE ExpandFromEatsDollar(_, _, _)
ExpandFromEatsDollar(s, i, env) ==
    IF i > Len(s) THEN <<>>
    ELSE LET e == MatchEnd(s, i)
         IN  IF e = 0
               THEN (IF s[i] = "$" THEN <<>> ELSE <<s[i]>>)
                        \o ExpandFromEatsDollar(s, i + 1, env)
             ELSE expandMatch(SubSeq(s, i, e), env) \o ExpandFromEatsDollar(s, e + 1, env)

\* ReplaceAllStringFunc: scan left to right; text outside the matches is
\* copied, every match is replaced by the callback's result, and scanning
\* resumes after the match (the replacement is not scanned again).
RECURSIVE ExpandFrom(_, _, _)
ExpandFrom(s, i, env) ==
    IF i > Len(s) THEN <<>>
    ELSE LET e == MatchEnd(s, i)
         IN  IF e = 0 THEN <<s[i]>> \o ExpandFrom(s, i + 1, env)
             ELSE expandMatch(SubSeq(s, i, e), env) \o ExpandFrom(s, e + 1, env)

\* expandEnvVar, but the expanded text is expanded once more
expandEnvVarRescanned(s, env) == ExpandFrom(ExpandFrom(s, 1, env), 1, env)

expandEnvVar(s, env) == ExpandFrom(s, 1, env)

(***************************************************************************)
(* The target object: a tree of reflect values.  k is the reflect.Kind.    *)
(* A record field is [name, env, v]: its Go identifier, its `env` tag      *)
(* (empty when the field has none) and its value.                          *)
(***************************************************************************)
Str(s)       == [k |-> "string", s |-> s, named |-> FALSE]
NamedStr(s)  == [k |-> "string", s |-> s, named |-> TRUE]   \* type T string
IntV(n)      == [k |-> "int", n |-> n, bits |-> 64]
Int8V(n)     == [k |-> "int", n |-> n, bits |-> 8]
UintV(n)     == [k |-> "uint", n |-> n, bits |-> 64]
BoolV(b)     == [k |-> "bool", b |-> b]
FloatV(m, e) == [k |-> "float", m |-> m, e |-> e]           \* m * 10^(-e)
Struct(f)    == [k |-> "struct", f |-> f]
Map(m)       == [k |-> "map", m |-> m]
Slice(e)     == [k |-> "slice", e |-> e]
Array(e)     == [k |-> "array", e |-> e]
Ptr(v)       == [k |-> "ptr", nil |-> FALSE, e |-> v]
NilPtr       == [k |-> "ptr", nil |-> TRUE]
Iface(v)     == [k |-> "interface", nil |-> FALSE, e |-> v]
NilIface     == [k |-> "interface", nil |-> TRUE]
Field(name, tag, v) == [name |-> name, env |-> tag, v |-> v]

\* a Go identifier is exported when it starts with an upper-case letter
IsExported(name) == Len(name) > 0 /\ IsUpper(name[1])

(***************************************************************************)
(* strconv, as far as the environment values of the model go: decimal      *)
(* text of at most a few digits (no 64-bit range error), no exponent,      *)
(* hexadecimal, infinity or NaN spellings.                                 *)
(***************************************************************************)
AllDigits(s) == Len(s) > 0 /\ \A i \in 1..Len(s) : IsDigit(s[i])

RECURSIVE DecimalValue(_)
DecimalValue(s) ==
    IF s = <<>> THEN 0
    ELSE 10 * DecimalValue(SubSeq(s, 1, Len(s) - 1)) + DigitVal(s[Len(s)])

\* strconv.ParseUint(value, 10, 64): digits only
ParseUint(s) ==
    IF AllDigits(s) THEN [ok |-> TRUE, n |-> DecimalValue(s)] ELSE [ok |-> FALSE, n |-> 0]

\* strconv.ParseInt(value, 10, 64): an optional sign, then digits
ParseInt(s) ==
    LET signed == Len(s) > 0 /\ s[1] \in {"+", "-"}
        digits == IF signed THEN Tail(s) ELSE s
    IN  IF ~AllDigits(digits) THEN [ok |-> FALSE, n |-> 0]
        ELSE [ok |-> TRUE,
              n  |-> IF signed /\ s[1] = "-" THEN 0 - DecimalValue(digits)
                     ELSE DecimalValue(digits)]

\* strconv.ParseBool
ParseBool(s) ==
    IF s \in {<<"1">>, <<"t">>, <<"T">>, <<"T","R","U","E">>, <<"t","r","u","e">>,
              <<"T","r","u","e">>}
      THEN [ok |-> TRUE, b |-> TRUE]
    ELSE IF s \in {<<"0">>, <<"f">>, <<"F">>, <<"F","A","L","S","E">>,
                   <<"f","a","l","s","e">>, <<"F","a","l","s","e">>}
      THEN [ok |-> TRUE, b |-> FALSE]
    ELSE [ok |-> FALSE, b |-> FALSE]

RECURSIVE StripZeros(_)
StripZeros(s) ==
    IF s # <<>> /\ s[Len(s)] = "0" THEN StripZeros(SubSeq(s, 1, Len(s) - 1)) ELSE s

\* strconv.ParseFloat(value, 64) on plain decimals: sign, digits, optional
\* point and digits, at least one digit.  The value is m * 10^(-e).
ParseFloat(s) ==
    LET signed == Len(s) > 0 /\ s[1] \in {"+", "-"}
        body   == IF signed THEN Tail(s) ELSE s
        dot    == Index(body, <<".">>)
        ip     == IF dot = 0 THEN body ELSE SubSeq(body, 1, dot - 1)
        fp     == IF dot = 0 THEN <<>> ELSE SubSeq(body, dot + 1, Len(body))
        wellFormed == /\ Len(ip) + Len(fp) > 0
                      /\ \A i \in 1..Len(ip) : IsDigit(ip[i])
                      /\ \A i \in 1..Len(fp) : IsDigit(fp[i])
        frac   == StripZeros(fp)
        mag    == DecimalValue(ip \o frac)
    IN  IF ~wellFormed THEN [ok |-> FALSE, m |-> 0, e |-> 0]
        ELSE [ok |-> TRUE,
              m  |-> IF signed /\ s[1] = "-" THEN 0 - mag ELSE mag,
              e  |-> Len(frac)]

\* reflect.Value.SetInt / SetUint store the number in the field's own width:
\* a field narrower than 64 bits keeps the low bits only
Pow2(b) == IF b = 8 THEN 256 ELSE IF b = 16 THEN 65536 ELSE 0
TruncInt(n, bits) ==
    IF Pow2(bits) = 0 THEN n
    ELSE LET r == n % Pow2(bits)
         IN  IF r >= Pow2(bits) \div 2 THEN r - Pow2(bits) ELSE r
TruncUint(n, bits) == IF Pow2(bits) = 0 THEN n ELSE n % Pow2(bits)

(***************************************************************************)
(* Errors.  NoErr is Go's nil error.                                       *)
(***************************************************************************)
NoErr == [kind |-> "none"]

\* setFieldValue, but a field of any other kind is left as it is, without error
setFieldValueSkipsUnsupported(field, value) ==
    CASE field.k = "string" ->
           [ok |-> TRUE, v |-> [field EXCEPT !.s = value], cause |-> "none"]
      [] field.k = "int" ->
           LET r == ParseInt(value)
           IN  IF r.ok
                 THEN [ok |-> TRUE, v |-> [field EXCEPT !.n = TruncInt(r.n, field.bits)],
                       cause |-> "none"]
                 ELSE [ok |-> FALSE, v |-> field, cause |-> "ParseInt"]
      [] field.k = "uint" ->
           LET r == ParseUint(value)
           IN  IF r.ok
                 THEN [ok |-> TRUE, v |-> [field EXCEPT !.n = TruncUint(r.n, field.bits)],
                       cause |-> "none"]
                 ELSE [ok |-> FALSE, v |-> field, cause |-> "ParseUint"]
      [] field.k = "bool" ->
           LET r == ParseBool(value)
           IN  IF r.ok
                 THEN [ok |-> TRUE, v |-> [field EXCEPT !.b = r.b], cause |-> "none"]
                 ELSE [ok |-> FALSE, v |-> field, cause |-> "ParseBool"]
      [] field.k = "float" ->
           LET r == ParseFloat(value)
           IN  IF r.ok
                 THEN [ok |-> TRUE, v |-> [field EXCEPT !.m = r.m, !.e = r.e],
                       cause |-> "none"]
                 ELSE [ok |-> FALSE, v |-> field, cause |-> "ParseFloat"]
      [] OTHER ->
           [ok |-> TRUE, v |-> field, cause |-> "none"]

\* Loader.setFieldValue: coerce the raw text into the field's kind.  The
\* time.Duration branch of the source is the same decimal parse as the plain
\* integer branch.
setFieldValue(field, value) ==
    CASE field.k = "string" ->
           [ok |-> TRUE, v |-> [field EXCEPT !.s = value], cause |-> "none"]
      [] field.k = "int" ->
           LET r == ParseInt(value)
           IN  IF r.ok
                 THEN [ok |-> TRUE, v |-> [field EXCEPT !.n = TruncInt(r.n, field.bits)],
                       cause |-> "none"]
                 ELSE [ok |-> FALSE, v |-> field, cause |-> "ParseInt"]
      [] field.k = "uint" ->
           LET r == ParseUint(value)
           IN  IF r.ok
                 THEN [ok |-> TRUE, v |-> [field EXCEPT !.n = TruncUint(r.n, field.bits)],
                       cause |-> "none"]
                 ELSE [ok |-> FALSE, v |-> field, cause |-> "ParseUint"]
      [] field.k = "bool" ->
           LET r == ParseBool(value)
           IN  IF r.ok
                 THEN [ok |-> TRUE, v |-> [field EXCEPT !.b = r.b], cause |-> "none"]
                 ELSE [ok |-> FALSE, v |-> field, cause |-> "ParseBool"]
      [] field.k = "float" ->
           LET r == ParseFloat(value)
           IN  IF r.ok
                 THEN [ok |-> TRUE, v |-> [field EXCEPT !.m = r.m, !.e = r.e],
                       cause |-> "none"]
                 ELSE [ok |-> FALSE, v |-> field, cause |-> "ParseFloat"]
      [] OTHER ->
           [ok |-> FALSE, v |-> field, cause |-> "unsupported field type"]

\* EnvKey, but the field name is used as written
EnvKeyAsWritten(fd) == IF fd.env = <<>> THEN fd.name ELSE fd.env

\* the env tag of a field, or its upper-cased name
EnvKey(fd) == IF fd.env = <<>> THEN ToUpper(fd.name) ELSE fd.env

\* loadStructFromEnv, but the sentinel is only honoured on leaf fields: a
\* record field is recursed into before its key is looked at
RECURSIVE loadStructFromEnvSentinelOnLeaves(_, _, _, _)
loadStructFromEnvSentinelOnLeaves(fields, i, prefix, env) ==
    IF i > Len(fields) THEN [f |-> fields, err |-> NoErr]
    ELSE
      LET fd      == fields[i]
          envKey  == EnvKey(fd)
          fullKey == prefix \o envKey
      IN  IF ~IsExported(fd.name)
            THEN loadStructFromEnvSentinelOnLeaves(fields, i + 1, prefix, env)
          ELSE IF fd.v.k = "struct" THEN
            LET r    == loadStructFromEnvSentinelOnLeaves(fd.v.f, 1, fullKey \o <<"_">>, env)
                done == [fields EXCEPT ![i].v.f = r.f]
            IN  IF r.err # NoErr THEN [f |-> done, err |-> r.err]
                ELSE loadStructFromEnvSentinelOnLeaves(done, i + 1, prefix, env)
          ELSE IF envKey = <<"-">>
            THEN loadStructFromEnvSentinelOnLeaves(fields, i + 1, prefix, env)
          ELSE
            LET envValue == Getenv(env, fullKey)
            IN  IF envValue = <<>>
                  THEN loadStructFromEnvSentinelOnLeaves(fields, i + 1, prefix, env)
                ELSE
                  LET r == setFieldValue(fd.v, envValue)
                  IN  IF ~r.ok
                        THEN [f |-> fields,
                              err |-> [kind |-> "FieldBind", field |-> fd.name,
                                       key |-> fullKey, raw |-> envValue,
                                       cause |-> r.cause]]
                        ELSE loadStructFromEnvSentinelOnLeaves(
                                 [fields EXCEPT ![i].v = r.v], i + 1, prefix, env)

\* loadStructFromEnv, but a nested record is walked with the prefix of its
\* parent: the record's own key is left out of the keys of its fields
RECURSIVE loadStructFromEnvFlatKeys(_, _, _, _)
loadStructFromEnvFlatKeys(fields, i, prefix, env) ==
    IF i > Len(fields) THEN [f |-> fields, err |-> NoErr]
    ELSE
      LET fd      == fields[i]
          envKey  == EnvKey(fd)
          fullKey == prefix \o envKey
      IN  IF ~IsExported(fd.name) THEN loadStructFromEnvFlatKeys(fields, i + 1, prefix, env)
          ELSE IF envKey = <<"-">> THEN loadStructFromEnvFlatKeys(fields, i + 1, prefix, env)
          ELSE IF fd.v.k = "struct" THEN
            LET r    == loadStructFromEnvFlatKeys(fd.v.f, 1, prefix, env)
                done == [fields EXCEPT ![i].v.f = r.f]
            IN  IF r.err # NoErr THEN [f |-> done, err |-> r.err]
                ELSE loadStructFromEnvFlatKeys(done, i + 1, prefix, env)
          ELSE
            LET envValue == Getenv(env, fullKey)
            IN  IF envValue = <<>> THEN loadStructFromEnvFlatKeys(fields, i + 1, prefix, env)
                ELSE
                  LET r == setFieldValue(fd.v, envValue)
                  IN  IF ~r.ok
                        THEN [f |-> fields,
                              err |-> [kind |-> "FieldBind", field |-> fd.name,
                                       key |-> fullKey, raw |-> envValue,
                                       cause |-> r.cause]]
                        ELSE loadStructFromEnvFlatKeys([fields EXCEPT ![i].v = r.v],
                                                       i + 1, prefix, env)

\* loadStructFromEnv, but a variable that is set to the empty string is used
\* like any other value (os.LookupEnv instead of os.Getenv)
RECURSIVE loadStructFromEnvSetWhenPresent(_, _, _, _)
loadStructFromEnvSetWhenPresent(fields, i, prefix, env) ==
    IF i > Len(fields) THEN [f |-> fields, err |-> NoErr]
    ELSE
      LET fd      == fields[i]
          envKey  == EnvKey(fd)
          fullKey == prefix \o envKey
      IN  IF ~IsExported(fd.name) THEN loadStructFromEnvSetWhenPresent(fields, i + 1, prefix, env)
          ELSE IF envKey = <<"-">> THEN loadStructFromEnvSetWhenPresent(fields, i + 1, prefix, env)
          ELSE IF fd.v.k = "struct" THEN
            LET r    == loadStructFromEnvSetWhenPresent(fd.v.f, 1, fullKey \o <<"_">>, env)
                done == [fields EXCEPT ![i].v.f = r.f]
            IN  IF r.err # NoErr THEN [f |-> done, err |-> r.err]
                ELSE loadStructFromEnvSetWhenPresent(done, i + 1, prefix, env)
          ELSE
            LET envValue == Getenv(env, fullKey)
            IN  IF fullKey \notin DOMAIN env
                  THEN loadStructFromEnvSetWhenPresent(fields, i + 1, prefix, env)
                ELSE
                  LET r == setFieldValue(fd.v, envValue)
                  IN  IF ~r.ok
                        THEN [f |-> fields,
                              err |-> [kind |-> "FieldBind", field |-> fd.name,
                                       key |-> fullKey, raw |-> envValue,
                                       cause |-> r.cause]]
                        ELSE loadStructFromEnvSetWhenPresent([fields EXCEPT ![i].v = r.v],
                                                             i + 1, prefix, env)

\* loadStructFromEnv, but the key of a record is joined to the keys of its
\* fields without the "_"
RECURSIVE loadStructFromEnvNoSeparator(_, _, _, _)
loadStructFromEnvNoSeparator(fields, i, prefix, env) ==
    IF i > Len(fields) THEN [f |-> fields, err |-> NoErr]
    ELSE
      LET fd      == fields[i]
          envKey  == EnvKey(fd)
          fullKey == prefix \o envKey
      IN  IF ~IsExported(fd.name) THEN loadStructFromEnvNoSeparator(fields, i + 1, prefix, env)
          ELSE IF envKey = <<"-">> THEN loadStructFromEnvNoSeparator(fields, i + 1, prefix, env)
          ELSE IF fd.v.k = "struct" THEN
            LET r    == loadStructFromEnvNoSeparator(fd.v.f, 1, fullKey, env)
                done == [fields EXCEPT ![i].v.f = r.f]
            IN  IF r.err # NoErr THEN [f |-> done, err |-> r.err]
                ELSE loadStructFromEnvNoSeparator(done, i + 1, prefix, env)
          ELSE
            LET envValue == Getenv(env, fullKey)
            IN  IF envValue = <<>> THEN loadStructFromEnvNoSeparator(fields, i + 1, prefix, env)
                ELSE
                  LET r == setFieldValue(fd.v, envValue)
                  IN  IF ~r.ok
                        THEN [f |-> fields,
                              err |-> [kind |-> "FieldBind", field |-> fd.name,
                                       key |-> fullKey, raw |-> envValue,
                                       cause |-> r.cause]]
                        ELSE loadStructFromEnvNoSeparator([fields EXCEPT ![i].v = r.v],
                                                          i + 1, prefix, env)

\* Loader.loadStructFromEnv, from field i on.  Every record the overlay visits
\* is reached from the dereferenced root through settable fields, so
\* field.CanSet() is "the field is exported".  Result: the fields as left by
\* the walk, and the first error.
RECURSIVE loadStructFromEnv(_, _, _, _)
loadStructFromEnv(fields, i, prefix, env) ==
    IF i > Len(fields) THEN [f |-> fields, err |-> NoErr]
    ELSE
      LET fd      == fields[i]
          envKey  == EnvKey(fd)
          fullKey == prefix \o envKey
      IN  IF ~IsExported(fd.name) THEN loadStructFromEnv(fields, i + 1, prefix, env)
          ELSE IF envKey = <<"-">> THEN loadStructFromEnv(fields, i + 1, prefix, env)
          ELSE IF fd.v.k = "struct" THEN
            LET r    == loadStructFromEnv(fd.v.f, 1, fullKey \o <<"_">>, env)
                done == [fields EXCEPT ![i].v.f = r.f]
            IN  IF r.err # NoErr THEN [f |-> done, err |-> r.err]
                ELSE loadStructFromEnv(done, i + 1, prefix, env)
          ELSE
            LET envValue == Getenv(env, fullKey)
            IN  IF envValue = <<>> THEN loadStructFromEnv(fields, i + 1, prefix, env)
                ELSE
                  LET r == setFieldValue(fd.v, envValue)
                  IN  IF ~r.ok
                        THEN [f |-> fields,
                              err |-> [kind |-> "FieldBind", field |-> fd.name,
                                       key |-> fullKey, raw |-> envValue,
                                       cause |-> r.cause]]
                        ELSE loadStructFromEnv([fields EXCEPT ![i].v = r.v],
                                               i + 1, prefix, env)

\* Loader.loadFromEnv: the target must be a pointer to a record
loadFromEnv(config, prefix, env) ==
    IF config.k # "ptr" \/ config.nil \/ config.e.k # "struct"
      THEN [v |-> config, err |-> [kind |-> "InvalidTarget"]]
    ELSE LET r == loadStructFromEnv(config.e.f, 1, prefix, env)
         IN  [v |-> [config EXCEPT !.e.f = r.f], err |-> r.err]

(***************************************************************************)
(* File phase: Loader.loadFromFile                                         *)
(***************************************************************************)
\* filepath.Ext: the suffix from the last dot of the last path element
Ext(path) ==
    LET slashes == {i \in 1..Len(path) : path[i] = "/"}
        dots    == {i \in 1..Len(path) :
                       path[i] = "." /\ \A j \in slashes : j < i}
    IN  IF dots = {} THEN <<>>
        ELSE SubSeq(path, CHOOSE i \in dots : \A j \in dots : j <= i, Len(path))

\* yaml.Unmarshal / json.Unmarshal into a record: every exported field the
\* document names takes the document's value, a nested record is decoded
\* field by field, and a field the document does not name keeps its value.
\* Documents are keyed by the field's Go name here; the decoders' own key
\* mapping (yaml and json tags) is not modelled.
RECURSIVE Decode(_, _)
Decode(fields, doc) ==
    [i \in 1..Len(fields) |->
        LET fd == fields[i]
        IN  IF ~IsExported(fd.name) \/ fd.name \notin DOMAIN doc THEN fd
            ELSE IF fd.v.k = "struct"
              THEN [fd EXCEPT !.v.f = Decode(fd.v.f, doc[fd.name].d)]
            ELSE [fd EXCEPT !.v = doc[fd.name]]]

\* a nested document
Doc(d) == [k |-> "doc", d |-> d]

\* The YAML decoder accepts YAML text and JSON text (JSON is a subset of
\* YAML); the JSON decoder accepts JSON text only.
Unmarshal(format, file, config) ==
    IF file.syntax = "garbage" \/ (format = "json" /\ file.syntax # "json")
      THEN [v |-> config, err |-> [kind |-> "ConfigParse", format |-> format]]
    ELSE [v |-> [config EXCEPT !.e.f = Decode(config.e.f, file.doc)], err |-> NoErr]

ExtYAML == <<".", "y", "a", "m", "l">>
ExtYML  == <<".", "y", "m", "l">>
ExtJSON == <<".", "j", "s", "o", "n">>

\* loadFromFile, but the extension is checked before the file is read
loadFromFileExtensionFirst(path, file, config) ==
    LET ext == ToLower(Ext(path))
    IN  IF ext \notin {ExtYAML, ExtYML, ExtJSON}
          THEN [v |-> config, err |-> [kind |-> "UnsupportedFormat", ext |-> ext]]
        ELSE IF file.state = "missing" THEN [v |-> config, err |-> NoErr]
        ELSE IF file.state = "unreadable"
          THEN [v |-> config, err |-> [kind |-> "ConfigRead"]]
        ELSE IF ext = ExtJSON THEN Unmarshal("json", file, config)
        ELSE Unmarshal("yaml", file, config)

\* loadFromFile, but a file of any other extension is decoded as YAML
loadFromFileDefaultYAML(path, file, config) ==
    IF file.state = "missing" THEN [v |-> config, err |-> NoErr]
    ELSE IF file.state = "unreadable"
      THEN [v |-> config, err |-> [kind |-> "ConfigRead"]]
    ELSE
      LET ext == ToLower(Ext(path))
      IN  IF ext = ExtJSON THEN Unmarshal("json", file, config)
          ELSE Unmarshal("yaml", file, config)

\* Loader.loadFromFile: os.ReadFile first (a missing file is not an error),
\* then the decoder chosen by the lower-cased extension
loadFromFile(path, file, config) ==
    IF file.state = "missing" THEN [v |-> config, err |-> NoErr]
    ELSE IF file.state = "unreadable"
      THEN [v |-> config, err |-> [kind |-> "ConfigRead"]]
    ELSE
      LET ext == ToLower(Ext(path))
      IN  IF ext \in {ExtYAML, ExtYML} THEN Unmarshal("yaml", file, config)
          ELSE IF ext = ExtJSON THEN Unmarshal("json", file, config)
          ELSE [v |-> config, err |-> [kind |-> "UnsupportedFormat", ext |-> ext]]

(***************************************************************************)
(* Interpolation phase: Loader.substituteValue                             *)
(*                                                                         *)
(* addr and ro are the two reflect flags that decide CanSet: the value is  *)
(* addressable, and it was reached through an unexported field.  A record  *)
(* field and an array element inherit addr; a slice element and the target *)
(* of a pointer are always addressable; the value of a mapping entry and   *)
(* the value inside an open-typed slot are copies, never addressable.  ro  *)
(* is inherited by everything below an unexported field.                   *)
(* The result is the value as left by the walk, and whether it panicked.   *)
(***************************************************************************)
RECURSIVE substituteValue(_, _, _, _)
RECURSIVE substituteEach(_, _, _, _, _)

\* the children vals[i], vals[i+1], ... in order; a panic stops the walk
substituteEach(vals, i, addrs, ros, env) ==
    IF i > Len(vals) THEN [vs |-> vals, panic |-> FALSE]
    ELSE LET r == substituteValue(vals[i], addrs[i], ros[i], env)
             done == [vals EXCEPT ![i] = r.v]
         IN  IF r.panic THEN [vs |-> done, panic |-> TRUE]
             ELSE substituteEach(done, i + 1, addrs, ros, env)

\* one entry of a mapping.  SetMapIndex panics on a mapping reached through
\* an unexported field, and when the plain string it is given is not
\* assignable to the mapping's element type (a named string type).
\* The entry of a nil open-typed value is an invalid Value: no case applies.
substituteMapEntry(val, ro, env) ==
    LET inner == IF val.k = "interface" /\ ~val.nil THEN val.e ELSE val
    IN  IF val.k = "interface" /\ val.nil THEN [v |-> val, panic |-> FALSE]
        ELSE IF inner.k = "string" THEN
          IF ro \/ (val.k = "string" /\ val.named) THEN [v |-> val, panic |-> TRUE]
          ELSE LET new == Str(expandEnvVar(inner.s, env))
               IN  [v |-> IF val.k = "interface" THEN Iface(new) ELSE new,
                    panic |-> FALSE]
        ELSE LET r == substituteValue(inner, FALSE, ro, env)
             IN  [v |-> IF val.k = "interface" THEN Iface(r.v) ELSE r.v,
                  panic |-> r.panic]

substituteValue(v, addr, ro, env) ==
    CASE v.k = "string" ->
           IF addr /\ ~ro
             THEN [v |-> [v EXCEPT !.s = expandEnvVar(v.s, env)], panic |-> FALSE]
             ELSE [v |-> v, panic |-> FALSE]
      [] v.k = "struct" ->
           LET r == substituteEach([i \in 1..Len(v.f) |-> v.f[i].v], 1,
                                   [i \in 1..Len(v.f) |-> addr],
                                   [i \in 1..Len(v.f) |->
                                       ro \/ ~IsExported(v.f[i].name)], env)
           IN  [v |-> [v EXCEPT !.f = [i \in 1..Len(v.f) |->
                                          [v.f[i] EXCEPT !.v = r.vs[i]]]],
                panic |-> r.panic]
      [] v.k = "map" ->
           \* MapKeys comes in no particular order; the order only decides
           \* which other entries were rewritten before a panic
           LET r == [key \in DOMAIN v.m |-> substituteMapEntry(v.m[key], ro, env)]
           IN  [v |-> [v EXCEPT !.m = [key \in DOMAIN v.m |-> r[key].v]],
                panic |-> \E key \in DOMAIN v.m : r[key].panic]
      [] v.k \in {"slice", "array"} ->
           LET r == substituteEach(v.e, 1,
                                   [i \in 1..Len(v.e) |-> v.k = "slice" \/ addr],
                                   [i \in 1..Len(v.e) |-> ro], env)
           IN  [v |-> [v EXCEPT !.e = r.vs], panic |-> r.panic]
      [] v.k = "ptr" ->
           IF v.nil THEN [v |-> v, panic |-> FALSE]
           ELSE LET r == substituteValue(v.e, TRUE, ro, env)
                IN  [v |-> [v EXCEPT !.e = r.v], panic |-> r.panic]
      [] v.k = "interface" ->
           IF v.nil THEN [v |-> v, panic |-> FALSE]
           ELSE LET r == substituteValue(v.e, FALSE, ro, env)
                IN  [v |-> [v EXCEPT !.e = r.v], panic |-> r.panic]
      [] OTHER -> [v |-> v, panic |-> FALSE]

\* Loader.substituteEnvVars: the walk starts at the dereferenced target
substituteEnvVars(config, env) ==
    IF config.k # "ptr" THEN [v |-> config, err |-> [kind |-> "InvalidTarget"],
                              panic |-> FALSE]
    ELSE IF config.nil THEN [v |-> config, err |-> NoErr, panic |-> FALSE]
    ELSE LET r == substituteValue(config.e, TRUE, FALSE, env)
         IN  [v |-> [config EXCEPT !.e = r.v], err |-> NoErr, panic |-> r.panic]

\* Go identifiers of the targets below
nName == <<"N", "a", "m", "e">>
nServer == <<"S", "e", "r", "v", "e", "r">>
nPort == <<"P", "o", "r", "t">>
nHost == <<"H", "o", "s", "t">>
nPass == <<"P", "a", "s", "s">>
nDebug == <<"D", "e", "b", "u", "g">>
nRatio == <<"R", "a", "t", "i", "o">>
nLevel == <<"L", "e", "v", "e", "l">>
nCount == <<"C", "o", "u", "n", "t">>
nSecret == <<"S", "e", "c", "r", "e", "t">>
nInternal == <<"I", "n", "t", "e", "r", "n", "a", "l">>
nToken == <<"T", "o", "k", "e", "n">>
nhidden == <<"h", "i", "d", "d", "e", "n">>
nValue == <<"V", "a", "l", "u", "e">>
nItems == <<"I", "t", "e", "m", "s">>
nArr == <<"A", "r", "r">>
nLabels == <<"L", "a", "b", "e", "l", "s">>
nOpt == <<"O", "p", "t">>
nVal == <<"V", "a", "l">>
nExtra == <<"E", "x", "t", "r", "a">>
nAnys == <<"A", "n", "y", "s">>
nMeta == <<"M", "e", "t", "a">>
nRecs == <<"R", "e", "c", "s">>
nLists == <<"L", "i", "s", "t", "s">>
nlabels == <<"l", "a", "b", "e", "l", "s">>
ninner == <<"i", "n", "n", "e", "r">>
nKinds == <<"K", "i", "n", "d", "s">>
nTimeout == <<"T", "i", "m", "e", "o", "u", "t">>
nTls == <<"T", "l", "s">>
nDb == <<"D", "b">>
nServerTimeout == <<"S", "e", "r", "v", "e", "r", "T", "i", "m", "e", "o", "u", "t">>
nServerPort == <<"S", "e", "r", "v", "e", "r", "P", "o", "r", "t">>
nServer_Port == <<"S", "e", "r", "v", "e", "r", "_", "P", "o", "r", "t">>
nTags == <<"T", "a", "g", "s">>
nListen == <<"L", "i", "s", "t", "e", "n">>

(***************************************************************************)
(* The defaults hook.  The hook is supplied by the target's type; the one  *)
(* modelled is the fallback pattern of BaseConfig.SetServerDefaults        *)
(* (config/base.go), restricted to the port and the host.                  *)
(***************************************************************************)
DefaultPort == 8080
DefaultHost == <<"0", ".", "0", ".", "0", ".", "0">>

SetServerDefaults(fields) ==
    [i \in 1..Len(fields) |->
        LET fd == fields[i]
        IN  IF fd.name = nPort /\ fd.v.k = "int" /\ fd.v.n = 0
              THEN [fd EXCEPT !.v.n = DefaultPort]
            ELSE IF fd.name = nHost /\ fd.v.k = "string" /\ fd.v.s = <<>>
              THEN [fd EXCEPT !.v.s = DefaultHost]
            ELSE fd]

SetDefaults(config) ==
    [config EXCEPT !.e.f =
        [i \in 1..Len(config.e.f) |->
            LET fd == config.e.f[i]
            IN  IF fd.name = nServer /\ fd.v.k = "struct"
                  THEN [fd EXCEPT !.v.f = SetServerDefaults(fd.v.f)]
                  ELSE fd]]

(***************************************************************************)
(* State of one Load call                                                  *)
(***************************************************************************)
VARIABLES
    pc,              \* the phase Load is about to run, or how it ended
    target,          \* the caller's config object (the pointer passed to Load)
    hasSetDefaults,  \* the target's type has a SetDefaults() method
    configPath,      \* Loader.configPath
    envPrefix,       \* Loader.envPrefix
    file,            \* what the file system holds at configPath
    env,             \* the process environment
    err,             \* the error Load returns
    trace,           \* the phases run so far, each with the error it returned
    snap,            \* the target as each phase left it ("Start": as passed in)
    setDefaultsCalls \* how many times SetDefaults was invoked

(***************************************************************************)
(* State of one request served through middleware.Recovery                 *)
(***************************************************************************)
VARIABLES
    rpc,        \* where the request is: in the wrapped handler, or how it ended
    request,    \* r.Method and r.URL.Path
    w,          \* the response: the status sent (0: none yet) and the body
    logs,       \* what was logged through the logger given to Recovery
    ops,        \* calls the wrapped handler has made on w
    recovered,  \* what recover() returned in the deferred function
    wAtEnd      \* the response as the wrapped handler left it

loader == <<pc, target, hasSetDefaults, configPath, envPrefix, file, env, err,
            trace, snap, setDefaultsCalls>>

http == <<rpc, request, w, logs, ops, recovered, wAtEnd>>

vars == <<loader, http>>

inputs == <<hasSetDefaults, configPath, envPrefix, file, env>>

Ran(phase, e) == [phase |-> phase, err |-> e]

\* fmt.Errorf("failed to load config from ...: %w", err)
LoadError(phase, cause) == [kind |-> "LoadError", phase |-> phase, cause |-> cause]

\* FilePhase, but Load goes on to the overlay when the file phase failed
FilePhaseKeepGoing ==
    /\ pc = "FilePhase"
    /\ LET r == IF configPath # <<>> THEN loadFromFile(configPath, file, target)
                ELSE [v |-> target, err |-> NoErr]
       IN  /\ target' = r.v
           /\ trace' = Append(trace, Ran("FilePhase", r.err))
           /\ snap' = snap @@ ("FilePhase" :> r.v)
           /\ pc' = "EnvPhase"
           /\ err' = err
    /\ UNCHANGED <<inputs, setDefaultsCalls, http>>

\* Load, lines 33-38: the file phase (skipped when no path is configured)
FilePhase ==
    /\ pc = "FilePhase"
    /\ LET r == IF configPath # <<>> THEN loadFromFile(configPath, file, target)
                ELSE [v |-> target, err |-> NoErr]
       IN  /\ target' = r.v
           /\ trace' = Append(trace, Ran("FilePhase", r.err))
           /\ snap' = snap @@ ("FilePhase" :> r.v)
           /\ IF r.err # NoErr
                THEN pc' = "Failed" /\ err' = LoadError("file", r.err)
                ELSE pc' = "EnvPhase" /\ err' = err
    /\ UNCHANGED <<inputs, setDefaultsCalls, http>>

\* EnvPhase, but a failed overlay gives the target back as the file phase left it
EnvPhaseAllOrNothing ==
    /\ pc = "EnvPhase"
    /\ LET r == loadFromEnv(target, envPrefix, env)
           t == IF r.err # NoErr THEN target ELSE r.v
       IN  /\ target' = t
           /\ trace' = Append(trace, Ran("EnvPhase", r.err))
           /\ snap' = snap @@ ("EnvPhase" :> t)
           /\ IF r.err # NoErr
                THEN pc' = "Failed" /\ err' = LoadError("environment", r.err)
                ELSE pc' = "InterpolationPhase" /\ err' = err
    /\ UNCHANGED <<inputs, setDefaultsCalls, http>>

\* Load, lines 40-43: the environment overlay
EnvPhase ==
    /\ pc = "EnvPhase"
    /\ LET r == loadFromEnv(target, envPrefix, env)
       IN  /\ target' = r.v
           /\ trace' = Append(trace, Ran("EnvPhase", r.err))
           /\ snap' = snap @@ ("EnvPhase" :> r.v)
           /\ IF r.err # NoErr
                THEN pc' = "Failed" /\ err' = LoadError("environment", r.err)
                ELSE pc' = "InterpolationPhase" /\ err' = err
    /\ UNCHANGED <<inputs, setDefaultsCalls, http>>

\* Load, lines 45-48: the interpolation.  A panic of the reflective walk
\* unwinds Load: it neither returns nor runs the defaults hook.
InterpolationPhase ==
    /\ pc = "InterpolationPhase"
    /\ LET r == substituteEnvVars(target, env)
       IN  /\ target' = r.v
           /\ trace' = Append(trace, Ran("InterpolationPhase", r.err))
           /\ snap' = snap @@ ("InterpolationPhase" :> r.v)
           /\ IF r.panic THEN pc' = "Panicked" /\ err' = err
              ELSE IF r.err # NoErr
                THEN pc' = "Failed" /\ err' = LoadError("substitute", r.err)
              ELSE pc' = "DefaultsHook" /\ err' = err
    /\ UNCHANGED <<inputs, setDefaultsCalls, http>>

\* DefaultsHook, but the hook is called without asking whether the target has it
DefaultsHookUnchecked ==
    /\ pc = "DefaultsHook"
    /\ target' = SetDefaults(target)
    /\ setDefaultsCalls' = setDefaultsCalls + 1
    /\ trace' = Append(trace, Ran("DefaultsHook", NoErr))
    /\ snap' = snap @@ ("DefaultsHook" :> target')
    /\ pc' = "Done"
    /\ err' = NoErr
    /\ UNCHANGED <<inputs, http>>

\* Load, lines 50-55: the defaults hook, then return nil
DefaultsHook ==
    /\ pc = "DefaultsHook"
    /\ IF hasSetDefaults
         THEN target' = SetDefaults(target) /\ setDefaultsCalls' = setDefaultsCalls + 1
         ELSE target' = target /\ setDefaultsCalls' = setDefaultsCalls
    /\ trace' = Append(trace, Ran("DefaultsHook", NoErr))
    /\ snap' = snap @@ ("DefaultsHook" :> target')
    /\ pc' = "Done"
    /\ err' = NoErr
    /\ UNCHANGED <<inputs, http>>

Next == FilePhase \/ EnvPhase \/ InterpolationPhase \/ DefaultsHook

\* no request is being served
NoRequest ==
    /\ rpc = "Idle"
    /\ request = [method |-> "", path |-> ""]
    /\ w = [status |-> 0, body |-> <<>>]
    /\ logs = <<>>
    /\ ops = 0
    /\ recovered = "nil"
    /\ wAtEnd = w


(***************************************************************************)
(* Inputs of a Load call                                                   *)
(***************************************************************************)
MaxEnvVars == 2     \* variables set together in an overlay scenario
MaxTokens == 3      \* tokens concatenated into an interpolated string

NoEnv == <<>>

kAppName == <<"A", "P", "P", "_", "N", "A", "M", "E">>
kAppServerPort == <<"A", "P", "P", "_", "S", "E", "R", "V", "E", "R", "_", "P", "O", "R", "T">>
kAppSecret == <<"A", "P", "P", "_", "S", "E", "C", "R", "E", "T">>
kAppInternalToken == <<"A", "P", "P", "_", "I", "N", "T", "E", "R", "N", "A", "L", "_", "T", "O", "K", "E", "N">>
pAPP == <<"A", "P", "P", "_">>

\* candidate (variable, value) settings for the overlay scenarios
EnvPairs ==
    {
      <<<<"A", "P", "P", "_", "N", "A", "M", "E">>, <<"x">>>>,
      \* set to the empty string
      <<<<"A", "P", "P", "_", "N", "A", "M", "E">>, <<>>>>,
      <<<<"A", "P", "P", "_", "S", "E", "R", "V", "E", "R", "_", "P", "O", "R", "T">>, <<>>>>,
      <<<<"A", "P", "P", "_", "N", "A", "M", "E">>, <<"$", "{", "X", ":", "-", "d", "}">>>>,
      <<<<"A", "P", "P", "_", "S", "E", "R", "V", "E", "R", "_", "P", "O", "R", "T">>, <<"4", "0", "0", "0">>>>,
      <<<<"A", "P", "P", "_", "S", "E", "R", "V", "E", "R", "_", "P", "O", "R", "T">>, <<"0">>>>,
      <<<<"A", "P", "P", "_", "S", "E", "R", "V", "E", "R", "_", "P", "O", "R", "T">>, <<"4", "x">>>>,
      <<<<"A", "P", "P", "_", "S", "E", "R", "V", "E", "R", "_", "P", "A", "S", "S">>, <<"s">>>>,
      <<<<"A", "P", "P", "_", "D", "E", "B", "U", "G">>, <<"t", "r", "u", "e">>>>,
      <<<<"A", "P", "P", "_", "D", "E", "B", "U", "G">>, <<"y", "e", "s">>>>,
      <<<<"A", "P", "P", "_", "R", "A", "T", "I", "O">>, <<"1", ".", "5", "0">>>>,
      <<<<"A", "P", "P", "_", "R", "A", "T", "I", "O">>, <<".">>>>,
      <<<<"A", "P", "P", "_", "L", "E", "V", "E", "L">>, <<"3", "0", "0">>>>,
      <<<<"A", "P", "P", "_", "C", "O", "U", "N", "T">>, <<"5">>>>,
      <<<<"A", "P", "P", "_", "C", "O", "U", "N", "T">>, <<"-", "5">>>>,
      <<<<"A", "P", "P", "_", "S", "E", "C", "R", "E", "T">>, <<"s">>>>,
      <<<<"A", "P", "P", "_", "-">>, <<"s">>>>,
      <<<<"A", "P", "P", "_", "I", "N", "T", "E", "R", "N", "A", "L", "_", "T", "O", "K", "E", "N">>, <<"s">>>>,
      <<<<"A", "P", "P", "_", "-", "_", "T", "O", "K", "E", "N">>, <<"s">>>>,
      <<<<"A", "P", "P", "_", "H", "I", "D", "D", "E", "N">>, <<"s">>>> }

RECURSIVE EnvsUpTo(_)
EnvsUpTo(n) ==
    IF n = 0 THEN {NoEnv}
    ELSE LET prev == EnvsUpTo(n - 1)
         IN  prev \cup
             {x[1] @@ (x[2][1] :> x[2][2]) :
                 x \in {y \in prev \X EnvPairs : y[2][1] \notin DOMAIN y[1]}}

OverlayEnvs == EnvsUpTo(MaxEnvVars)

\* the application config of the overlay scenarios, as a caller passes it:
\* every field at its zero value
AppConfig ==
    Ptr(Struct(<<
        Field(nName, <<>>, Str(<<>>)),
        Field(nServer, <<>>, Struct(<<
            Field(nPort, <<>>, IntV(0)),
            Field(nHost, <<>>, Str(<<>>)),
            Field(nPass, <<"-">>, Str(<<>>)) >>)),
        Field(nDebug, <<>>, BoolV(FALSE)),
        Field(nRatio, <<>>, FloatV(0, 0)),
        Field(nLevel, <<>>, Int8V(0)),
        Field(nCount, <<>>, UintV(0)),
        Field(nSecret, <<"-">>, Str(<<>>)),
        Field(nInternal, <<"-">>, Struct(<< Field(nToken, <<>>, Str(<<>>)) >>)),
        Field(nhidden, <<>>, Str(<<>>)) >>))

\* a config file that sets every exported field of AppConfig
AppDoc ==
    (nName :> Str(<<"f", "i", "l", "e">>)) @@
    (nServer :> Doc((nPort :> IntV(3000)) @@ (nHost :> Str(<<"f", "h">>)) @@
                    (nPass :> Str(<<"f", "p">>)))) @@
    (nDebug :> BoolV(TRUE)) @@
    (nRatio :> FloatV(25, 1)) @@
    (nLevel :> Int8V(1)) @@
    (nCount :> UintV(9)) @@
    (nSecret :> Str(<<"f", "s">>)) @@
    (nInternal :> Doc((nToken :> Str(<<"f", "t">>))))

NoFile == [state |-> "missing"]
Unreadable == [state |-> "unreadable"]
FileWith(syntax, doc) == [state |-> "present", syntax |-> syntax, doc |-> doc]

Files ==
    {NoFile, Unreadable, FileWith("yaml", AppDoc), FileWith("json", AppDoc),
     FileWith("garbage", <<>>)}

Paths ==
    { <<"c", ".", "y", "a", "m", "l">>, <<"c", ".", "Y", "M", "L">>, <<"c", ".", "j", "s", "o", "n">>,
      <<"c", ".", "t", "o", "m", "l">>, <<"c", ".", "T", "O", "M", "L">>, <<"c", "f", "g">>,
      <<"a", ".", "y", "m", "l", "/", "c", "f", "g">>, <<"c", ".", "y", "a", "m", "l", ".", "b", "a", "k">> }

\* strings for the interpolation: concatenations of reference syntax tokens
Tokens == { <<"$", "{">>, <<"}">>, <<":", "-">>, <<"$">>, <<"A">>, <<"x">> }

RECURSIVE TokenStrs(_)
TokenStrs(n) ==
    IF n = 0 THEN {<<>>}
    ELSE LET prev == TokenStrs(n - 1)
         IN  prev \cup {x[1] \o x[2] : x \in prev \X Tokens}

ExtraStrs ==
    { 
      <<"$", "{", "A", ":", "-", "x", "}">>,
      <<"$", "{", "M", ":", "-", "d", "}">>,
      <<"a", "$", "{", "A", "}", "b", "$", "A", "_", "1", ".", "c">>,
      <<"$", "l", "o", "w", "e", "r">>,
      <<"$", "{", "A", ":", "-", "$", "A", "}">> }

Strs == TokenStrs(MaxTokens) \cup ExtraStrs

\* environments of the interpolation scenarios: A unset, A set
InterpEnvs == {NoEnv, (<<"A">> :> <<"v">>)}

\* strings and environments in which a value or a default is itself a
\* reference; VALUE is the key of the field of OneString under the empty prefix
NestedStrs == { <<"$", "{", "A", "}">>, <<"$", "{", "A", ":", "-", "$", "B", "}">>, <<"$", "A">>, <<"x", "$", "{", "A", "}", "$", "{", "B", "}">> }

kValue == <<"V", "A", "L", "U", "E">>
refB == <<"$", "{", "B", "}">>

NestedEnvs ==
    { (<<"A">> :> refB) @@ (<<"B">> :> <<"w">>),
      (<<"B">> :> <<"w">>),
      (<<"A">> :> <<"$", "A">>),
      (kValue :> refB) @@ (<<"B">> :> <<"w">>) }

\* a target with one string field
OneString(s) == Ptr(Struct(<< Field(nValue, <<>>, Str(s)) >>))

\* strings placed in the leaves of the container shapes
ShapeStrs == { <<"$", "{", "A", "}">>, <<"$", "{", "M", ":", "-", "d", "}">>, <<"x">> }

Root(fields) == Ptr(Struct(fields))
Rec(s) == Struct(<< Field(nVal, <<>>, Str(s)) >>)

\* a target with fields that are neither scalars nor records: []string,
\* map[string]string, *Rec (nil or not), any
PluginConfig(opt) ==
    Root(<< Field(nName, <<>>, Str(<<>>)),
            Field(nPort, <<>>, IntV(0)),
            Field(nTags, <<>>, Slice(<<>>)),
            Field(nLabels, <<>>, Map(<<>>)),
            Field(nOpt, <<>>, opt),
            Field(nExtra, <<>>, NilIface) >>)

kAppOpt == <<"A", "P", "P", "_", "O", "P", "T">>
kAppOptVal == <<"A", "P", "P", "_", "O", "P", "T", "_", "V", "A", "L">>

PluginPairs ==
    { <<kAppName, <<"x">>>>,
      <<<<"A", "P", "P", "_", "P", "O", "R", "T">>, <<"4", "x">>>>,
      <<<<"A", "P", "P", "_", "T", "A", "G", "S">>, <<"a", ",", "b">>>>,
      <<<<"A", "P", "P", "_", "T", "A", "G", "S">>, <<>>>>,
      <<<<"A", "P", "P", "_", "L", "A", "B", "E", "L", "S">>, <<"k", "=", "v">>>>,
      <<kAppOpt, <<"x">>>>,
      <<kAppOptVal, <<"x">>>>,
      <<<<"A", "P", "P", "_", "E", "X", "T", "R", "A">>, <<"x">>>> }

\* no variable, one, or two with different names
PluginEnvs ==
    {NoEnv} \cup {x[1] :> x[2] : x \in PluginPairs}
    \cup {(x[1][1] :> x[1][2]) @@ (x[2][1] :> x[2][2]) :
             x \in {y \in PluginPairs \X PluginPairs : y[1][1] # y[2][1]}}

\* targets as a caller may pass them, already holding values: one per way a
\* string can be reached
Shapes(s) ==
    { \* []string, [1]string
      Root(<< Field(nItems, <<>>, Slice(<<Str(s), Str(<<"k">>)>>)),
              Field(nArr, <<>>, Array(<<Str(s)>>)) >>),
      \* map[string]string
      Root(<< Field(nLabels, <<>>, Map((<<"a">> :> Str(s)))) >>),
      \* *Rec, a nil *Rec, and a non-string leaf
      Root(<< Field(nOpt, <<>>, Ptr(Rec(s))),
              Field(nExtra, <<>>, NilPtr),
              Field(nCount, <<>>, IntV(5)) >>),
      \* any holding a string
      Root(<< Field(nExtra, <<>>, Iface(Str(s))) >>),
      \* any holding a *Rec, any holding a Rec, a nil any
      Root(<< Field(nExtra, <<>>, Iface(Ptr(Rec(s)))),
              Field(nOpt, <<>>, NilIface) >>),
      Root(<< Field(nExtra, <<>>, Iface(Rec(s))) >>),
      \* []any
      Root(<< Field(nAnys, <<>>, Slice(<<Iface(Str(s))>>)) >>),
      \* map[string]any as a decoder fills it
      Root(<< Field(nMeta, <<>>, Map(
                 (<<"a">> :> Iface(Str(s))) @@
                 (<<"n">> :> NilIface) @@
                 (<<"m">> :> Iface(Map((<<"b">> :> Iface(Str(s))))))) ) >>),
      Root(<< Field(nMeta, <<>>, Map(
                 (<<"l">> :> Iface(Slice(<<Iface(Str(s))>>))))) >>),
      Root(<< Field(nMeta, <<>>, Map(
                 (<<"t">> :> Iface(NamedStr(s))))) >>),
      \* map[string]Rec, map[string]*Rec, map[string][]string
      Root(<< Field(nRecs, <<>>, Map((<<"r">> :> Rec(s)))) >>),
      Root(<< Field(nRecs, <<>>, Map((<<"p">> :> Ptr(Rec(s))))) >>),
      Root(<< Field(nLists, <<>>, Map((<<"l">> :> Slice(<<Str(s)>>)))) >>),
      \* unexported fields: a string, a record, a slice
      Root(<< Field(nhidden, <<>>, Str(s)),
              Field(ninner, <<>>, Struct(<< Field(nVal, <<>>, Str(s)),
                                            Field(nItems, <<>>, Slice(<<Str(s)>>)) >>)),
              Field(nValue, <<>>, Str(s)) >>),
      \* unexported map[string]string: with an entry, and empty
      Root(<< Field(nlabels, <<>>, Map((<<"a">> :> Str(s)))) >>),
      Root(<< Field(nlabels, <<>>, Map(<<>>)),
              Field(nValue, <<>>, Str(s)) >>),
      \* map[string]Kind where type Kind string
      Root(<< Field(nKinds, <<>>, Map((<<"a">> :> NamedStr(s)))) >>) }

pathYAML == <<"c", ".", "y", "a", "m", "l">>

\* targets of the key-derivation scenarios: records nested two deep, an env
\* tag on a record and on a leaf
NestedConfig ==
    Root(<< Field(nTimeout, <<>>, IntV(0)),
            Field(nServer, <<>>, Struct(<<
                Field(nTimeout, <<>>, IntV(0)),
                Field(nTls, <<>>, Struct(<< Field(nTimeout, <<>>, IntV(0)) >>)) >>)),
            Field(nDb, <<"D", "A", "T", "A", "B", "A", "S", "E">>, Struct(<< Field(nTimeout, <<"T", "T", "L">>, IntV(0)) >>)),
            Field(nServerTimeout, <<>>, IntV(0)) >>)

\* a leaf tagged env:"SERVER_PORT" beside the record Server with a field Port
TaggedBesideNested ==
    Root(<< Field(nServerPort, <<"S", "E", "R", "V", "E", "R", "_", "P", "O", "R", "T">>, IntV(0)),
            Field(nServer, <<>>, Struct(<< Field(nPort, <<>>, IntV(0)) >>)) >>)

\* a leaf named Server_Port beside the record Server with a field Port
UnderscoreBesideNested ==
    Root(<< Field(nServer_Port, <<>>, IntV(0)),
            Field(nServer, <<>>, Struct(<< Field(nPort, <<>>, IntV(0)) >>)) >>)

\* two sibling leaves with the same override key
SameTagSiblings ==
    Root(<< Field(nPort, <<>>, IntV(0)),
            Field(nListen, <<"P", "O", "R", "T">>, IntV(0)) >>)

\* what a caller may pass instead of a pointer to a record: a record by
\* value, a nil *Config, the untyped nil, a pointer to a mapping, a pointer to
\* a string
InvalidTargets ==
    { Struct(<< Field(nName, <<>>, Str(<<>>)) >>),
      NilPtr,
      NilIface,
      Ptr(Map((<<"a">> :> Str(<<"x">>)))),
      Ptr(Str(<<"x">>)) }

pathTOML == <<"c", ".", "t", "o", "m", "l">>

KeySchemas == {NestedConfig, TaggedBesideNested, UnderscoreBesideNested, SameTagSiblings}

KeySuffixes ==
    { <<"T", "I", "M", "E", "O", "U", "T">>,
      <<"S", "E", "R", "V", "E", "R", "_", "T", "I", "M", "E", "O", "U", "T">>,
      <<"S", "E", "R", "V", "E", "R", "_", "T", "L", "S", "_", "T", "I", "M", "E", "O", "U", "T">>,
      <<"D", "A", "T", "A", "B", "A", "S", "E", "_", "T", "T", "L">>,
      <<"D", "B", "_", "T", "I", "M", "E", "O", "U", "T">>,
      <<"S", "E", "R", "V", "E", "R", "T", "I", "M", "E", "O", "U", "T">>,
      <<"S", "E", "R", "V", "E", "R", "_", "P", "O", "R", "T">>,
      <<"P", "O", "R", "T">> }

kAppServerTimeout == <<"A", "P", "P", "_", "S", "E", "R", "V", "E", "R", "_", "T", "I", "M", "E", "O", "U", "T">>
kServerTimeout == <<"S", "E", "R", "V", "E", "R", "_", "T", "I", "M", "E", "O", "U", "T">>

\* environments of the key-derivation scenarios: one variable, named by a
\* suffix with or without the prefix APP_, or both of these
KeyEnvs ==
    {NoEnv}
    \cup {(pAPP \o k) :> <<"3", "0">> : k \in KeySuffixes}
    \cup {k :> <<"4", "5">> : k \in KeySuffixes}
    \cup {((pAPP \o k) :> <<"3", "0">>) @@ (k :> <<"4", "5">>) : k \in KeySuffixes}


Init ==
    /\ pc = "FilePhase"
    /\ err = NoErr
    /\ trace = <<>>
    /\ setDefaultsCalls = 0
    /\ \/ \* overlay scenarios
          /\ target = AppConfig
          /\ envPrefix = pAPP
          /\ env \in OverlayEnvs
          /\ \E pf \in {<<pathYAML, FileWith("yaml", AppDoc)>>, <<<<>>, NoFile>>} :
                configPath = pf[1] /\ file = pf[2]
          /\ hasSetDefaults = TRUE
       \/ \* file scenarios
          /\ target = AppConfig
          /\ envPrefix = pAPP
          /\ env \in {NoEnv, (kAppServerPort :> <<"4", "0", "0", "0">>)}
          /\ configPath \in Paths
          /\ file \in Files
          /\ hasSetDefaults \in BOOLEAN
       \/ \* interpolation of one string
          /\ target \in {OneString(s) : s \in Strs}
          /\ envPrefix = <<>>
          /\ env \in InterpEnvs
          /\ configPath = <<>>
          /\ file = NoFile
          /\ hasSetDefaults = FALSE
       \/ \* interpolation of values and defaults that hold references
          /\ target \in {OneString(s) : s \in NestedStrs}
          /\ envPrefix = <<>>
          /\ env \in NestedEnvs
          /\ configPath = <<>>
          /\ file = NoFile
          /\ hasSetDefaults = FALSE
       \/ \* overlay of a target with sequence, mapping, pointer and open-typed fields
          /\ target \in {PluginConfig(NilPtr), PluginConfig(Ptr(Rec(<<>>)))}
          /\ envPrefix = pAPP
          /\ env \in PluginEnvs
          /\ configPath = <<>>
          /\ file = NoFile
          /\ hasSetDefaults = FALSE
       \/ \* interpolation through containers
          /\ target \in UNION {Shapes(s) : s \in ShapeStrs}
          /\ envPrefix = <<>>
          /\ env \in InterpEnvs
          /\ configPath = <<>>
          /\ file = NoFile
          /\ hasSetDefaults \in BOOLEAN
       \/ \* key derivation
          /\ target \in KeySchemas
          /\ envPrefix \in {pAPP, <<>>}
          /\ env \in KeyEnvs
          /\ configPath = <<>>
          /\ file = NoFile
          /\ hasSetDefaults = FALSE
       \/ \* targets that are not a pointer to a record.  The paths are those
          \* for which loadFromFile returns before it hands the target to a
          \* decoder.
          /\ target \in InvalidTargets
          /\ envPrefix = pAPP
          /\ env \in {NoEnv, (kAppName :> <<"x">>)}
          /\ \E pf \in {<<<<>>, NoFile>>, <<pathYAML, NoFile>>, <<pathYAML, Unreadable>>,
                         <<pathTOML, FileWith("yaml", AppDoc)>>} :
                configPath = pf[1] /\ file = pf[2]
          /\ hasSetDefaults \in BOOLEAN
    /\ snap = ("Start" :> target)
    /\ NoRequest

Spec == Init /\ [][Next]_vars

TypeOK ==
    /\ pc \in {"FilePhase", "EnvPhase", "InterpolationPhase", "DefaultsHook",
               "Done", "Failed", "Panicked"}
    /\ setDefaultsCalls \in 0..1
    /\ Len(trace) <= 4

(***************************************************************************)
(* middleware.Recovery                                                     *)
(*                                                                         *)
(* The handler Recovery returns defers a function and calls the wrapped    *)
(* handler.  The wrapped handler is any code: it calls WriteHeader and     *)
(* Write on w some number of times, then returns or panics.  The response  *)
(* writer is net/http's: the first WriteHeader fixes the status and a      *)
(* later one is ignored; Write sends status 200 first when no status has   *)
(* been sent, and appends to the body.                                     *)
(***************************************************************************)
MaxHandlerOps == 2    \* calls the wrapped handler makes on w before it ends

StatusInternalServerError == 500

ErrorBody == "{\"success\":false,\"error\":\"Internal server error\"}"

\* statuses and body chunks the wrapped handler writes
HandlerCodes == {200, 404}
HandlerChunks == {"partial"}

\* values the wrapped handler panics with
PanicValues == {"boom", "nil"}

\* http.ResponseWriter.WriteHeader
WriteHeader(rw, code) == IF rw.status # 0 THEN rw ELSE [rw EXCEPT !.status = code]

\* http.ResponseWriter.Write
Write(rw, data) ==
    LET sent == WriteHeader(rw, 200)
    IN  [sent EXCEPT !.body = Append(@, data)]

\* recover() after panic(p): p itself; for panic(nil) either nil (Go before
\* 1.21, or GODEBUG=panicnil=1) or a *runtime.PanicNilError
RecoverResults(p) == IF p = "nil" THEN {"nil", "PanicNilError"} ELSE {p}

\* logger.Error("Panic recovered", error, method, path)
PanicRecord(e) ==
    [level |-> "error", msg |-> "Panic recovered", error |-> e,
     method |-> request.method, path |-> request.path]

\* the wrapped handler calls w.WriteHeader
NextWriteHeader ==
    /\ rpc = "Serving"
    /\ ops < MaxHandlerOps
    /\ \E code \in HandlerCodes : w' = WriteHeader(w, code)
    /\ ops' = ops + 1
    /\ UNCHANGED <<rpc, request, logs, recovered, wAtEnd, loader>>

\* the wrapped handler calls w.Write
NextWrite ==
    /\ rpc = "Serving"
    /\ ops < MaxHandlerOps
    /\ \E data \in HandlerChunks : w' = Write(w, data)
    /\ ops' = ops + 1
    /\ UNCHANGED <<rpc, request, logs, recovered, wAtEnd, loader>>

\* NextReturns, but the deferred function does not look at what recover()
\* returned: it logs and writes the error response after every request
NextReturnsRespondsAnyway ==
    /\ rpc = "Serving"
    /\ recovered' = "nil"
    /\ wAtEnd' = w
    /\ logs' = Append(logs, PanicRecord("nil"))
    /\ w' = Write(WriteHeader(w, StatusInternalServerError), ErrorBody)
    /\ rpc' = "Returned"
    /\ UNCHANGED <<request, ops, loader>>

\* next.ServeHTTP returns (line 26); the deferred function runs, recover()
\* returns nil and nothing else is done
NextReturns ==
    /\ rpc = "Serving"
    /\ recovered' = "nil"
    /\ wAtEnd' = w
    /\ rpc' = "Returned"
    /\ UNCHANGED <<request, w, logs, ops, loader>>

\* next.ServeHTTP panics; the deferred function (lines 13-24) runs: recover()
\* stops the panic, and when it returned a value the panic is logged and the
\* error response is written
NextPanics ==
    /\ rpc = "Serving"
    /\ \E p \in PanicValues : \E e \in RecoverResults(p) :
          /\ recovered' = e
          /\ IF e # "nil"
               THEN /\ logs' = Append(logs, PanicRecord(e))
                    /\ w' = Write(WriteHeader(w, StatusInternalServerError), ErrorBody)
               ELSE UNCHANGED <<logs, w>>
    /\ wAtEnd' = w
    /\ rpc' = "Recovered"
    /\ UNCHANGED <<request, ops, loader>>

NextRecovery == NextWriteHeader \/ NextWrite \/ NextReturns \/ NextPanics

Methods == {"GET", "POST"}
UrlPaths == {"/", "/items", "/items/1"}

InitRecovery ==
    /\ rpc = "Serving"
    /\ request \in [method : Methods, path : UrlPaths]
    /\ w = [status |-> 0, body |-> <<>>]
    /\ logs = <<>>
    /\ ops = 0
    /\ recovered = "nil"
    /\ wAtEnd = w
    \* no Load is running
    /\ pc = "Idle"
    /\ target = NilPtr
    /\ hasSetDefaults = FALSE
    /\ configPath = <<>>
    /\ envPrefix = <<>>
    /\ file = NoFile
    /\ env = NoEnv
    /\ err = NoErr
    /\ trace = <<>>
    /\ snap = ("Start" :> target)
    /\ setDefaultsCalls = 0

SpecRecovery == InitRecovery /\ [][NextRecovery]_vars

(***************************************************************************)
(* Properties                                                              *)
(***************************************************************************)
PhaseOrder == <<"FilePhase", "EnvPhase", "InterpolationPhase", "DefaultsHook">>

\* C1: the phases run in the order file, environment overlay, interpolation,
\* defaults hook; when the file phase or the overlay returns an error, it is
\* the last phase run, Load has failed, and the error Load returns wraps it.
C1_PhasesInOrderFailFast ==
    /\ Len(trace) <= Len(PhaseOrder)
    /\ \A i \in 1..Len(trace) : trace[i].phase = PhaseOrder[i]
    /\ \A i \in 1..Len(trace) :
          (i <= 2 /\ trace[i].err # NoErr) =>
             /\ i = Len(trace)
             /\ pc = "Failed"
             /\ err.kind = "LoadError" /\ err.cause = trace[i].err

\* a Load that failed in the overlay, after a file phase that decoded a file
C1_Witness ==
    /\ pc = "Failed"
    /\ Len(trace) = 2
    /\ trace[2].err # NoErr
    /\ snap["FilePhase"] # snap["Start"]

\* C2: SetDefaults has been invoked once when Load is done on a target that
\* has it, and never otherwise (Load still running, failed, panicked, or a
\* target without the method); when invoked, interpolation had finished
\* without error and the hook worked on the target as interpolation left it.
C2_SetDefaultsExactlyOnce ==
    /\ setDefaultsCalls = (IF pc = "Done" /\ hasSetDefaults THEN 1 ELSE 0)
    /\ setDefaultsCalls = 1 =>
          /\ Len(trace) = 4
          /\ \A i \in 1..3 : trace[i].err = NoErr
          /\ trace[3].phase = "InterpolationPhase"
          /\ target = SetDefaults(snap["InterpolationPhase"])

\* a finished Load whose hook filled in a fallback
C2_Witness ==
    /\ pc = "Done"
    /\ setDefaultsCalls = 1
    /\ target # snap["InterpolationPhase"]

(***************************************************************************)
(* The fields the overlay claims speak of.  FieldList gives the leaf       *)
(* fields of a record in depth-first declaration order, each with its path,*)
(* its effective environment key as the specification derives it (prefix,  *)
(* then the override key of every enclosing record followed by "_", then   *)
(* the field's own override key), whether it or an enclosing record        *)
(* carries the sentinel, and whether it is reached through an unexported   *)
(* field.                                                                  *)
(***************************************************************************)
OverrideKey(fd) == IF fd.env # <<>> THEN fd.env ELSE ToUpper(fd.name)

RECURSIVE FieldList(_, _, _, _, _, _)
FieldList(fields, i, prefix, path, sentinel, unexported) ==
    IF i > Len(fields) THEN <<>>
    ELSE
      LET fd  == fields[i]
          key == prefix \o OverrideKey(fd)
          sen == sentinel \/ OverrideKey(fd) = <<"-">>
          une == unexported \/ ~IsExported(fd.name)
          here == IF fd.v.k = "struct"
                    THEN FieldList(fd.v.f, 1, key \o <<"_">>, Append(path, fd.name),
                                   sen, une)
                    ELSE << [path |-> Append(path, fd.name), key |-> key,
                             sentinel |-> sen, unexported |-> une, v |-> fd.v] >>
      IN  here \o FieldList(fields, i + 1, prefix, path, sentinel, unexported)

\* the target is a non-nil pointer to a record
IsRecordRef(v) == v.k = "ptr" /\ ~v.nil /\ v.e.k = "struct"

\* the leaf fields of the target as a phase left it (none when the target is
\* not a reference to a record)
LeavesAt(phase) ==
    IF IsRecordRef(snap[phase])
      THEN FieldList(snap[phase].e.f, 1, envPrefix, <<>>, FALSE, FALSE)
      ELSE <<>>

IsScalar(v) == v.k \in {"string", "int", "uint", "bool", "float"}

\* the text can be coerced into the kind of v
Coercible(v, text) ==
    CASE v.k = "string" -> TRUE
      [] v.k = "int"    -> ParseInt(text).ok
      [] v.k = "uint"   -> ParseUint(text).ok
      [] v.k = "bool"   -> ParseBool(text).ok
      [] v.k = "float"  -> ParseFloat(text).ok
      [] OTHER          -> FALSE

\* v holds the text coerced into its kind (an integer in the field's width)
HoldsCoerced(v, text) ==
    CASE v.k = "string" -> v.s = text
      [] v.k = "int"    -> v.n = TruncInt(ParseInt(text).n, v.bits)
      [] v.k = "uint"   -> v.n = TruncUint(ParseUint(text).n, v.bits)
      [] v.k = "bool"   -> v.b = ParseBool(text).b
      [] v.k = "float"  -> v.m = ParseFloat(text).m /\ v.e = ParseFloat(text).e
      [] OTHER          -> FALSE

\* the overlay reads field l from the environment, and the variable is set
Overlaid(l) ==
    /\ ~l.sentinel /\ ~l.unexported
    /\ IsScalar(l.v)
    /\ Getenv(env, l.key) # <<>>

FileDecoded ==
    /\ Len(trace) >= 1 /\ trace[1].err = NoErr
    /\ configPath # <<>> /\ file.state = "present"

\* C3 as stated: when Load is done, every scalar field set both in the file
\* and through its environment key holds the environment value coerced to
\* its kind.
C3_EnvWinsAfterLoad ==
    (pc = "Done" /\ FileDecoded) =>
        LET decoded == LeavesAt("FilePhase")
            loaded  == LeavesAt("DefaultsHook")
        IN  \A i \in 1..Len(decoded) :
                Overlaid(decoded[i]) =>
                    HoldsCoerced(loaded[i].v, Getenv(env, decoded[i].key))

\* C3, amended: when the overlay has succeeded, every scalar field whose
\* environment key is set to a non-empty value holds that value coerced to
\* its kind, whatever the file phase had put there; when interpolation has
\* finished, a string field holds that value with its references expanded and
\* every other scalar field still holds the coerced value.
C3_EnvWinsAfterOverlay ==
    /\ (Len(trace) >= 2 /\ trace[2].err = NoErr) =>
          LET before == LeavesAt("FilePhase")
              after  == LeavesAt("EnvPhase")
          IN  \A i \in 1..Len(before) :
                  Overlaid(before[i]) =>
                      HoldsCoerced(after[i].v, Getenv(env, before[i].key))
    /\ pc \in {"DefaultsHook", "Done"} =>
          LET before == LeavesAt("FilePhase")
              after  == LeavesAt("InterpolationPhase")
          IN  \A i \in 1..Len(before) :
                  LET text == Getenv(env, before[i].key)
                  IN  Overlaid(before[i]) =>
                          HoldsCoerced(after[i].v,
                                       IF before[i].v.k = "string"
                                         THEN expandEnvVar(text, env) ELSE text)


\* the file sets server.port to 3000, APP_SERVER_PORT is 4000, and the loaded
\* port is 4000
C3_Witness ==
    /\ pc = "Done" /\ FileDecoded
    /\ Getenv(env, kAppServerPort) = <<"4", "0", "0", "0">>
    /\ LET decoded == LeavesAt("FilePhase")
           loaded  == LeavesAt("DefaultsHook")
       IN  \E i \in 1..Len(decoded) :
              /\ decoded[i].path = <<nServer, nPort>>
              /\ decoded[i].key = kAppServerPort
              /\ decoded[i].v.n = 3000
              /\ loaded[i].v.n = 4000

\* the overlay looks field l up in the environment, and the variable is set
IsRead(l) ==
    /\ ~l.sentinel /\ ~l.unexported
    /\ Getenv(env, l.key) # <<>>

\* the first field, in depth-first declaration order, whose environment value
\* cannot be coerced; 0 when there is none
FirstUncoercible(leaves) ==
    LET bad == {i \in 1..Len(leaves) :
                   IsRead(leaves[i]) /\ ~Coercible(leaves[i].v, Getenv(env, leaves[i].key))}
    IN  IF bad = {} THEN 0 ELSE CHOOSE i \in bad : \A j \in bad : i <= j

\* C9: when the environment value of some field cannot be coerced, the
\* overlay returns an error naming the first such field and its raw value,
\* Load fails with it, interpolation and the defaults hook do not run, fields
\* before the failing one hold their overlaid values, and the failing field
\* and all fields after it hold what the file phase left.
C9_CoercionFailureStopsOverlay ==
    (Len(trace) >= 2 /\ IsRecordRef(snap["FilePhase"])) =>
        LET before == LeavesAt("FilePhase")
            after  == LeavesAt("EnvPhase")
            j      == FirstUncoercible(before)
        IN  /\ (j = 0) = (trace[2].err = NoErr)
            /\ j # 0 =>
                /\ pc = "Failed" /\ Len(trace) = 2 /\ setDefaultsCalls = 0
                /\ err = LoadError("environment", trace[2].err)
                /\ trace[2].err.kind = "FieldBind"
                /\ trace[2].err.key = before[j].key
                /\ trace[2].err.field = before[j].path[Len(before[j].path)]
                /\ trace[2].err.raw = Getenv(env, before[j].key)
                /\ target = snap["EnvPhase"]
                /\ \A i \in 1..Len(before) :
                      IF i < j /\ Overlaid(before[i])
                        THEN HoldsCoerced(after[i].v, Getenv(env, before[i].key))
                        ELSE after[i].v = before[i].v

\* a failed overlay that had already overlaid an earlier field
C9_Witness ==
    /\ Len(trace) = 2 /\ pc = "Failed"
    /\ trace[2].err.kind = "FieldBind"
    /\ snap["EnvPhase"] # snap["FilePhase"]

\* C10: the overlay leaves every field that carries the sentinel, and every
\* field below a record that carries it, as the file phase left it.
C10_SentinelNeverOverlaid ==
    Len(trace) >= 2 =>
        LET before == LeavesAt("FilePhase")
            after  == LeavesAt("EnvPhase")
        IN  \A i \in 1..Len(before) :
                before[i].sentinel => after[i].v = before[i].v

\* an overlay that ran with the variables set that a sentinel field and a
\* field below a sentinel record would otherwise be read from
C10_Witness ==
    /\ Len(trace) >= 2 /\ trace[2].err = NoErr
    /\ Getenv(env, kAppSecret) # <<>>
    /\ Getenv(env, kAppInternalToken) # <<>>
    /\ LET after == LeavesAt("EnvPhase")
       IN  \E i \in 1..Len(after) :
              after[i].sentinel /\ after[i].path = <<nInternal, nToken>>

\* the rule C4 gives for one matched reference: the variable's value when it
\* is set and not empty; else the default when a ":-" clause is present,
\* whatever the default is; else the reference as written
ResolvedAsSpecified(match, ev) ==
    LET braced  == HasPrefix(match, <<"$", "{">>)
        content == IF braced THEN SubSeq(match, 3, Len(match) - 1) ELSE <<>>
        hasDef  == braced /\ Contains(content, <<":", "-">>)
        cut     == Index(content, <<":", "-">>)
        name    == IF braced
                     THEN (IF hasDef THEN SubSeq(content, 1, cut - 1) ELSE content)
                     ELSE Tail(match)
    IN  IF Getenv(ev, name) # <<>> THEN Getenv(ev, name)
        ELSE IF hasDef THEN SubSeq(content, cut + 2, Len(content))
        ELSE match

\* the string with every matched reference, left to right, resolved by that rule
RECURSIVE ExpandedAsSpecified(_, _, _)
ExpandedAsSpecified(s, i, ev) ==
    IF i > Len(s) THEN <<>>
    ELSE IF MatchEnd(s, i) = 0 THEN <<s[i]>> \o ExpandedAsSpecified(s, i + 1, ev)
    ELSE ResolvedAsSpecified(SubSeq(s, i, MatchEnd(s, i)), ev)
            \o ExpandedAsSpecified(s, MatchEnd(s, i) + 1, ev)

InterpolationDone == pc \in {"DefaultsHook", "Done"}

\* C4: when interpolation has finished, every string field of the target
\* holds its former text with each matched reference resolved by the rule of
\* ResolvedAsSpecified.
C4_ReferenceResolution ==
    InterpolationDone =>
        LET before == LeavesAt("EnvPhase")
            after  == LeavesAt("InterpolationPhase")
        IN  \A i \in 1..Len(before) :
                (before[i].v.k = "string" /\ ~before[i].unexported) =>
                    after[i].v.s = ExpandedAsSpecified(before[i].v.s, 1, env)

\* the string leaves of a value that are reached without passing an
\* unexported field, each with the path that leads to it
RECURSIVE StringLeaves(_, _)
StringLeaves(v, path) ==
    CASE v.k = "string" -> {<<path, v.s>>}
      [] v.k = "struct" ->
           UNION {IF IsExported(v.f[i].name)
                    THEN StringLeaves(v.f[i].v, Append(path, v.f[i].name))
                    ELSE {} : i \in 1..Len(v.f)}
      [] v.k = "map" ->
           UNION {StringLeaves(v.m[key], Append(path, key)) : key \in DOMAIN v.m}
      [] v.k \in {"slice", "array"} ->
           UNION {StringLeaves(v.e[i], Append(path, <<"[", Digits[i + 1], "]">>)) :
                     i \in 1..Len(v.e)}
      [] v.k \in {"ptr", "interface"} ->
           IF v.nil THEN {} ELSE StringLeaves(v.e, Append(path, <<"*">>))
      [] OTHER -> {}

\* C5: when interpolation has finished, every string leaf reachable from the
\* target (through record fields, sequence elements, mapping values, optional
\* references and open-typed slots) holds its former text expanded, and no
\* path (so no mapping key) has changed.
C5_EveryStringLeafExpanded ==
    InterpolationDone =>
        StringLeaves(snap["InterpolationPhase"], <<>>) =
            {<<l[1], expandEnvVar(l[2], env)>> : l \in StringLeaves(snap["EnvPhase"], <<>>)}

\* C6: interpolation never aborts and never returns an error.
C6_InterpolationNeverFails ==
    /\ pc # "Panicked"
    /\ Len(trace) >= 3 => trace[3].err = NoErr

\* every field at its zero value
RECURSIVE IsZero(_)
IsZero(v) ==
    CASE v.k = "string" -> v.s = <<>>
      [] v.k \in {"int", "uint"} -> v.n = 0
      [] v.k = "bool" -> ~v.b
      [] v.k = "float" -> v.m = 0
      [] v.k = "struct" -> \A i \in 1..Len(v.f) : IsZero(v.f[i].v)
      [] v.k = "map" -> DOMAIN v.m = {}
      [] v.k \in {"slice", "array"} -> \A i \in 1..Len(v.e) : IsZero(v.e[i])
      [] v.k \in {"ptr", "interface"} -> v.nil

NoFileToRead == configPath = <<>> \/ file.state = "missing"

\* C7: with an empty path or a path that names no file, the file phase
\* succeeds and leaves the target as passed in; if moreover no environment
\* variable is set and the target was passed in with every field zero, Load
\* does not fail, the target is still all zero when the defaults hook is
\* reached, and Load returns nil with the target as the hook (if any) left it.
C7_MissingFileIsNoOp ==
    (NoFileToRead /\ Len(trace) >= 1) =>
        /\ trace[1].err = NoErr
        /\ snap["FilePhase"] = snap["Start"]
        /\ (env = NoEnv /\ IsRecordRef(snap["Start"]) /\ IsZero(snap["Start"].e)) =>
              /\ pc \notin {"Failed", "Panicked"}
              /\ InterpolationDone =>
                    /\ snap["InterpolationPhase"] = snap["Start"]
                    /\ IsZero(snap["InterpolationPhase"].e)
              /\ pc = "Done" =>
                    /\ err = NoErr
                    /\ target = IF hasSetDefaults THEN SetDefaults(snap["Start"])
                                ELSE snap["Start"]

\* a path that names no file, no environment: Load is done and the hook has
\* filled in its fallbacks
C7_Witness ==
    /\ pc = "Done"
    /\ configPath # <<>> /\ file.state = "missing"
    /\ env = NoEnv
    /\ IsZero(snap["InterpolationPhase"].e)
    /\ hasSetDefaults /\ ~IsZero(target.e)

SupportedExts == {ExtYAML, ExtYML, ExtJSON}

UnsupportedFormatFailure ==
    /\ trace[1].err = [kind |-> "UnsupportedFormat", ext |-> ToLower(Ext(configPath))]
    /\ pc = "Failed"
    /\ err = LoadError("file", trace[1].err)
    /\ Len(trace) = 1

\* C8 as stated: for every non-empty path whose extension is not .yaml, .yml
\* or .json (in any letter case), the file phase fails with an
\* unsupported-format error naming the extension and no later phase runs.
C8_UnsupportedExtensionFails ==
    (Len(trace) >= 1 /\ configPath # <<>>
        /\ ToLower(Ext(configPath)) \notin SupportedExts) => UnsupportedFormatFailure

\* C8, amended: the same, for a path that names a file that exists and can
\* be read.
C8_UnsupportedExtensionOfReadableFileFails ==
    (Len(trace) >= 1 /\ configPath # <<>> /\ file.state = "present"
        /\ ToLower(Ext(configPath)) \notin SupportedExts) => UnsupportedFormatFailure

\* an existing c.TOML: Load has failed, the error names ".toml"
C8_Witness ==
    /\ pc = "Failed"
    /\ configPath = <<"c", ".", "T", "O", "M", "L">>
    /\ file.state = "present"
    /\ trace[1].err = [kind |-> "UnsupportedFormat", ext |-> <<".", "t", "o", "m", "l">>]

\* the leaf fields with the part of their key that follows the prefix: the
\* override key of every enclosing record followed by "_", then the leaf's own
KeyPaths(phase) ==
    IF IsRecordRef(snap[phase])
      THEN FieldList(snap[phase].e.f, 1, <<>>, <<>>, FALSE, FALSE)
      ELSE <<>>

\* C11: when the overlay has succeeded, every scalar leaf field that is
\* exported and not under the sentinel was read from the variable named by
\* the prefix followed by its key path, and from no other: it holds that
\* variable's value coerced when the variable is set and not empty, and what
\* the file phase left otherwise.
C11_EffectiveKey ==
    (Len(trace) >= 2 /\ trace[2].err = NoErr) =>
        LET before == KeyPaths("FilePhase")
            after  == KeyPaths("EnvPhase")
        IN  \A i \in 1..Len(before) :
                (~before[i].sentinel /\ ~before[i].unexported /\ IsScalar(before[i].v)) =>
                    LET text == Getenv(env, envPrefix \o before[i].key)
                    IN  IF text # <<>> THEN HoldsCoerced(after[i].v, text)
                        ELSE after[i].v = before[i].v

\* prefix APP_, both APP_SERVER_TIMEOUT and SERVER_TIMEOUT set: Server.Timeout
\* holds the value of APP_SERVER_TIMEOUT and the top-level Timeout is untouched
C11_Witness ==
    /\ Len(trace) >= 2 /\ trace[2].err = NoErr
    /\ envPrefix = pAPP
    /\ Getenv(env, kAppServerTimeout) = <<"3", "0">>
    /\ Getenv(env, kServerTimeout) = <<"4", "5">>
    /\ LET after == KeyPaths("EnvPhase")
       IN  /\ \E i \in 1..Len(after) :
                 /\ after[i].path = <<nServer, nTimeout>>
                 /\ envPrefix \o after[i].key = kAppServerTimeout
                 /\ after[i].v.n = 30
           /\ \E i \in 1..Len(after) :
                 after[i].path = <<nTimeout>> /\ after[i].v.n = 0

\* the leaf fields that the overlay changed and that hold the value of the
\* variable k coerced to their kind
PopulatedBy(before, after, k) ==
    {i \in 1..Len(before) :
        /\ after[i].v # before[i].v
        /\ Coercible(after[i].v, env[k])
        /\ HoldsCoerced(after[i].v, env[k])}

\* the override keys of the fields the overlay reads are pairwise distinct
\* within each record, and none contains the separator "_"
RECURSIVE WellKeyed(_)
WellKeyed(fields) ==
    LET read == {i \in 1..Len(fields) :
                    IsExported(fields[i].name) /\ OverrideKey(fields[i]) # <<"-">>}
    IN  \A i \in read :
            /\ \A n \in 1..Len(OverrideKey(fields[i])) : OverrideKey(fields[i])[n] # "_"
            /\ \A j \in read : i # j => OverrideKey(fields[i]) # OverrideKey(fields[j])
            /\ fields[i].v.k = "struct" => WellKeyed(fields[i].v.f)

\* C12 as stated: whatever the target's record type, no environment variable
\* populates two different leaf fields in the overlay.
C12_NoVariablePopulatesTwoFields ==
    (Len(trace) >= 2 /\ IsRecordRef(snap["Start"])) =>
        LET before == LeavesAt("FilePhase")
            after  == LeavesAt("EnvPhase")
        IN  \A k \in DOMAIN env : Cardinality(PopulatedBy(before, after, k)) <= 1

\* C12, amended: no environment variable populates two different leaf fields
\* of a target in which the override keys of sibling fields are distinct and
\* no override key contains "_".
C12_WellKeyedNoVariablePopulatesTwoFields ==
    (Len(trace) >= 2 /\ IsRecordRef(snap["Start"]) /\ WellKeyed(snap["Start"].e.f)) =>
        LET before == LeavesAt("FilePhase")
            after  == LeavesAt("EnvPhase")
        IN  \A k \in DOMAIN env : Cardinality(PopulatedBy(before, after, k)) <= 1

\* a record with fields Timeout at three depths and a field ServerTimeout,
\* SERVER_TIMEOUT set: the overlay populated Server.Timeout and nothing else
C12_Witness ==
    /\ Len(trace) >= 2 /\ trace[2].err = NoErr
    /\ snap["Start"] = NestedConfig
    /\ WellKeyed(snap["Start"].e.f)
    /\ envPrefix = <<>>
    /\ DOMAIN env = {kServerTimeout}
    /\ LET before == LeavesAt("FilePhase")
           after  == LeavesAt("EnvPhase")
       IN  \E i \in 1..Len(before) :
              /\ PopulatedBy(before, after, kServerTimeout) = {i}
              /\ before[i].path = <<nServer, nTimeout>>

\* C13: the overlay leaves every leaf field whose effective environment key
\* is unset, or set to the empty string, exactly as the file phase left it.
C13_UnsetOrEmptyLeavesFieldUntouched ==
    Len(trace) >= 2 =>
        LET before == LeavesAt("FilePhase")
            after  == LeavesAt("EnvPhase")
        IN  \A i \in 1..Len(before) :
                Getenv(env, before[i].key) = <<>> => after[i].v = before[i].v

\* the file sets name and server.port, APP_NAME and APP_SERVER_PORT are set to
\* the empty string, and after the overlay both fields hold the file's values
C13_Witness ==
    /\ Len(trace) >= 2 /\ trace[2].err = NoErr
    /\ FileDecoded
    /\ {kAppName, kAppServerPort} \subseteq DOMAIN env
    /\ env[kAppName] = <<>> /\ env[kAppServerPort] = <<>>
    /\ LET after == LeavesAt("EnvPhase")
       IN  /\ \E i \in 1..Len(after) :
                 /\ after[i].key = kAppName
                 /\ after[i].v.s = <<"f", "i", "l", "e">>
           /\ \E i \in 1..Len(after) :
                 /\ after[i].key = kAppServerPort
                 /\ after[i].v.n = 3000

InvalidTargetFailure ==
    /\ pc = "Failed"
    /\ err.kind = "LoadError"
    /\ err.cause = [kind |-> "InvalidTarget"]

\* C14: when the target passed to Load is not a non-nil pointer to a record,
\* the defaults hook is never invoked, Load never reports success, and a Load
\* that has ended has failed with the invalid-target error.
C14_InvalidTargetFails ==
    ~IsRecordRef(snap["Start"]) =>
        /\ setDefaultsCalls = 0
        /\ pc \notin {"DefaultsHook", "Done"}
        /\ pc \in {"Failed", "Panicked"} => InvalidTargetFailure

\* the text holds a reference as C15 describes one: "${", one or more
\* characters other than "}", then "}"; or "$" followed by an upper-case
\* letter or "_"
HasReference(s) ==
    \E i \in 1..(Len(s) - 1) :
        /\ s[i] = "$"
        /\ \/ IsUpper(s[i + 1])
           \/ s[i + 1] = "_"
           \/ /\ s[i + 1] = "{"
              /\ \E j \in (i + 3)..Len(s) :
                    s[j] = "}" /\ \A m \in (i + 2)..(j - 1) : s[m] # "}"

\* t from position k on is s from position i on with every matched span,
\* left to right, replaced by some text, and everything else kept
RECURSIVE Rewrites(_, _, _, _)
Rewrites(s, i, t, k) ==
    IF i > Len(s) THEN k = Len(t) + 1
    ELSE IF MatchEnd(s, i) = 0
      THEN k <= Len(t) /\ t[k] = s[i] /\ Rewrites(s, i + 1, t, k + 1)
    ELSE \E k2 \in k..(Len(t) + 1) : Rewrites(s, MatchEnd(s, i) + 1, t, k2)

\* a is b with nothing changed but the spans of references inside strings
RECURSIVE Framed(_, _)
Framed(b, a) ==
    CASE b.k = "string" ->
           /\ a.k = "string"
           /\ Rewrites(b.s, 1, a.s, 1)
           /\ ~HasReference(b.s) => a.s = b.s
      [] b.k = "struct" ->
           /\ a.k = "struct" /\ Len(a.f) = Len(b.f)
           /\ \A i \in 1..Len(b.f) :
                 /\ a.f[i].name = b.f[i].name /\ a.f[i].env = b.f[i].env
                 /\ Framed(b.f[i].v, a.f[i].v)
      [] b.k = "map" ->
           /\ a.k = "map" /\ DOMAIN a.m = DOMAIN b.m
           /\ \A key \in DOMAIN b.m : Framed(b.m[key], a.m[key])
      [] b.k \in {"slice", "array"} ->
           /\ a.k = b.k /\ Len(a.e) = Len(b.e)
           /\ \A i \in 1..Len(b.e) : Framed(b.e[i], a.e[i])
      [] b.k \in {"ptr", "interface"} ->
           /\ a.k = b.k /\ a.nil = b.nil
           /\ ~b.nil => Framed(b.e, a.e)
      [] OTHER -> a = b

\* C15: interpolation, whether it finishes or aborts, leaves the target as
\* the overlay left it except inside the spans of the references of its
\* strings: the text around the spans is kept in order, a string without a
\* reference is kept whole, and every value that is not a string is kept.
C15_OnlyReferenceSpansChange ==
    Len(trace) >= 3 => Framed(snap["EnvPhase"], snap["InterpolationPhase"])

\* "a${A}b$A_1.c" with A set to "v" has become "avb$A_1.c"
C15_Witness ==
    /\ InterpolationDone
    /\ snap["EnvPhase"] = OneString(<<"a", "$", "{", "A", "}", "b", "$", "A", "_", "1", ".", "c">>)
    /\ snap["InterpolationPhase"] = OneString(<<"a", "v", "b", "$", "A", "_", "1", ".", "c">>)

\* t from position k on is s from position i on with every matched span,
\* left to right, replaced by what the callback returns for it, as returned
RECURSIVE InsertedVerbatim(_, _, _, _)
InsertedVerbatim(s, i, t, k) ==
    IF i > Len(s) THEN k = Len(t) + 1
    ELSE IF MatchEnd(s, i) = 0
      THEN k <= Len(t) /\ t[k] = s[i] /\ InsertedVerbatim(s, i + 1, t, k + 1)
    ELSE LET r == expandMatch(SubSeq(s, i, MatchEnd(s, i)), env)
         IN  /\ k + Len(r) - 1 <= Len(t)
             /\ SubSeq(t, k, k + Len(r) - 1) = r
             /\ InsertedVerbatim(s, MatchEnd(s, i) + 1, t, k + Len(r))

\* C16: when interpolation has finished, every exported string field holds
\* the text the overlay left in it with each reference replaced by its value
\* or default exactly as found, references inside the inserted text included;
\* for a field the overlay wrote, that text is the value of the field's
\* environment variable.  So with B set to "w": "${A}" ends as "${B}" when A
\* is "${B}", "${A:-$B}" ends as "$B" when A is unset, and a field that the
\* overlay set to "${B}" ends as "w".
C16_SinglePass ==
    InterpolationDone =>
        LET before == LeavesAt("EnvPhase")
            after  == LeavesAt("InterpolationPhase")
        IN  \A i \in 1..Len(before) :
                (before[i].v.k = "string" /\ ~before[i].unexported) =>
                    /\ InsertedVerbatim(before[i].v.s, 1, after[i].v.s, 1)
                    /\ Overlaid(before[i]) =>
                          InsertedVerbatim(Getenv(env, before[i].key), 1, after[i].v.s, 1)
                    /\ (Getenv(env, <<"B">>) = <<"w">> /\ Getenv(env, <<"A">>) = refB
                            /\ before[i].v.s = <<"$", "{", "A", "}">>) =>
                          after[i].v.s = refB
                    /\ (Getenv(env, <<"B">>) = <<"w">> /\ Getenv(env, <<"A">>) = <<>>
                            /\ before[i].v.s = <<"$", "{", "A", ":", "-", "$", "B", "}">>) =>
                          after[i].v.s = <<"$", "B">>
                    /\ (Getenv(env, <<"B">>) = <<"w">> /\ Getenv(env, before[i].key) = refB
                            /\ Overlaid(before[i])) =>
                          after[i].v.s = <<"w">>

\* A is "${B}" and B is "w": "${A}" has become "${B}"
C16_Witness ==
    /\ InterpolationDone
    /\ DOMAIN env = {<<"A">>, <<"B">>}
    /\ env[<<"A">>] = refB /\ env[<<"B">>] = <<"w">>
    /\ snap["EnvPhase"] = OneString(<<"$", "{", "A", "}">>)
    /\ snap["InterpolationPhase"] = OneString(refB)

\* C17: the overlay never writes a settable field whose kind is neither a
\* scalar nor record (a sequence, a mapping, a pointer, an open-typed slot),
\* nor anything below it; when the field's key is set to a non-empty value
\* the overlay fails and Load with it, and the error is the
\* unsupported-field-type error for that field unless an earlier field had
\* already failed.
C17_NonScalarFieldIsLeaf ==
    (Len(trace) >= 2 /\ IsRecordRef(snap["FilePhase"])) =>
        LET before == LeavesAt("FilePhase")
            after  == LeavesAt("EnvPhase")
            j      == FirstUncoercible(before)
        IN  \A i \in 1..Len(before) :
                (~IsScalar(before[i].v) /\ ~before[i].sentinel /\ ~before[i].unexported) =>
                    /\ after[i].v = before[i].v
                    /\ Getenv(env, before[i].key) # <<>> =>
                          /\ pc = "Failed" /\ Len(trace) = 2 /\ setDefaultsCalls = 0
                          /\ err = LoadError("environment", trace[2].err)
                          /\ trace[2].err.kind = "FieldBind"
                          /\ j = i =>
                                /\ trace[2].err.cause = "unsupported field type"
                                /\ trace[2].err.key = before[i].key
                                /\ trace[2].err.raw = Getenv(env, before[i].key)

\* Opt is a non-nil *Rec, APP_OPT and APP_OPT_VAL are set: Load has failed on
\* Opt as an unsupported field type, and Opt.Val is still empty
C17_Witness ==
    /\ pc = "Failed"
    /\ snap["Start"] = PluginConfig(Ptr(Rec(<<>>)))
    /\ DOMAIN env = {kAppOpt, kAppOptVal}
    /\ trace[2].err.kind = "FieldBind"
    /\ trace[2].err.field = nOpt
    /\ trace[2].err.cause = "unsupported field type"
    /\ target = PluginConfig(Ptr(Rec(<<>>)))

\* the deferred function has run: the request ended by return or by panic
Ended == rpc \in {"Returned", "Recovered"}

\* C18 as stated: the panic of a wrapped handler never leaves Recovery, one
\* "Panic recovered" error is logged, and the response has status 500 and
\* ends with the error body, whatever the handler had written; after a
\* handler that returned, nothing is logged and the response is the handler's.
C18_PanicGives500 ==
    /\ rpc # "Propagated"
    /\ rpc = "Recovered" =>
          /\ Len(logs) = 1 /\ logs[1].level = "error" /\ logs[1].msg = "Panic recovered"
          /\ w.status = StatusInternalServerError
          /\ Len(w.body) >= 1 /\ w.body[Len(w.body)] = ErrorBody
    /\ rpc = "Returned" => logs = <<>> /\ w = wAtEnd

\* C18, amended: the panic of a wrapped handler never leaves Recovery.  When
\* recover() returned a value, one "Panic recovered" error is logged, with
\* that value and the request's method and path, the error body is appended
\* to what the handler had written, and the status is 500 if the handler had
\* sent none and the handler's own status otherwise.  When recover() returned
\* nil (panic(nil) on a runtime that reports it so), or the handler returned,
\* nothing is logged and the response is as the handler left it.
C18_PanicContained ==
    /\ rpc # "Propagated"
    /\ ~Ended => logs = <<>>
    /\ (rpc = "Recovered" /\ recovered # "nil") =>
          /\ logs = << [level |-> "error", msg |-> "Panic recovered",
                        error |-> recovered, method |-> request.method,
                        path |-> request.path] >>
          /\ w.body = Append(wAtEnd.body, ErrorBody)
          /\ w.status = IF wAtEnd.status = 0 THEN StatusInternalServerError
                        ELSE wAtEnd.status
    /\ (rpc = "Returned" \/ (rpc = "Recovered" /\ recovered = "nil")) =>
          logs = <<>> /\ w = wAtEnd

\* a handler that sent status 404 and part of a body, then panicked: the
\* response keeps status 404 and the error body follows the partial body
C18_Witness ==
    /\ rpc = "Recovered"
    /\ recovered = "boom"
    /\ wAtEnd = [status |-> 404, body |-> <<"partial">>]
    /\ w = [status |-> 404, body |-> <<"partial", ErrorBody>>]
    /\ Len(logs) = 1

====
